---- MODULE Spec2Model ----
(***************************************************************************)
(* The in-process sliding-window rate limiter of lib/rate-limit.ts:        *)
(* rateLimit(options) builds an LRUCache<string, number[]> (max =          *)
(* uniqueTokenPerInterval, ttl = interval) and returns check(limit, token).*)
(* The body of check holds no await: it runs to its return in one turn of  *)
(* the event loop, so one invocation is one atomic step; only the delivery *)
(* of its resolved promise to the awaiting caller is a later step.         *)
(*                                                                         *)
(* Time is one non-decreasing clock in milliseconds since the epoch, read  *)
(* once per invocation (Date.now() and the cache's own clock agree).       *)
(***************************************************************************)
EXTENDS Integers, Sequences, FiniteSets, TLC

\* ---------------------------------------------------------------- bounds
\* options.interval of the limiter under check, in clock ticks
Interval == 2
\* the clock runs from 0 to MaxTime
MaxTime == 5
\* check is called with limit in 0..MaxLimit
MaxLimit == 2
\* at most MaxPending resolved promises wait for their callers
MaxPending == 2

\* the caller keys (opaque strings to the limiter)
Keys == {"A", "B", "C"}
\* options.uniqueTokenPerInterval of the limiter under check: one key fewer
\* than the callers, so that insertions evict
MaxKeys == Cardinality(Keys) - 1
Limits == 0..MaxLimit

VARIABLES
    now,         \* the clock: what Date.now() returns
    options,     \* the RateLimitOptions the limiter was built with
    tokenCache,  \* the LRUCache: [max, ttl, list], list from least to most recently used
    last,        \* the invocation of check that ran last, with its verdict
    before,      \* when it ran, and the entry its key had then
    touched,     \* the keys check passed to get or set, least recently touched first,
                 \* and the key the latest invocation evicted
    hist,        \* what the previous invocations for the key Watched returned
    run,         \* the first run of consecutive check(limit, Watched) invocations
    pending,     \* verdicts of resolved promises not yet delivered to their callers
    shadow,      \* a second limiter, fed the same calls except those of one key,
                 \* and whether the first limiter has evicted a key
    log,         \* the calls of the scripted scenario, in order
    req,         \* the inbound request at hand: the user auth() found, its headers
    res          \* what was made of it: the identifier derived from it

vars == <<now, options, tokenCache, last, before, touched, hist, run, pending, shadow, log,
          req, res>>

\* ------------------------------------------------------------ the cache
\* new LRUCache({ max, ttl }): no entry; ttlAutopurge and updateAgeOnGet are
\* left at their defaults, so expiry is lazy and only set restarts an entry's ttl.
NewLRUCache(max, ttl) == [max |-> max, ttl |-> ttl, list |-> <<>>]

\* the position of key in the list, 0 when it has no entry
IndexOf(list, key) ==
    IF \E i \in 1..Len(list) : list[i].key = key
    THEN CHOOSE i \in 1..Len(list) : list[i].key = key
    ELSE 0

RemoveAt(list, i) == SubSeq(list, 1, i - 1) \o SubSeq(list, i + 1, Len(list))

HasKey(list, key) == IndexOf(list, key) # 0

EntryOf(list, key) == list[IndexOf(list, key)]

KeysOf(list) == {list[i].key : i \in 1..Len(list)}

\* an entry is stale once more than ttl has passed since it was last set
IsStale(c, i, t) == t - c.list[i].start > c.ttl

\* LRUCache.get: a missing key is undefined; a stale entry is deleted and is
\* undefined; a live entry becomes the most recently used and is returned.
LRUGet(c, key, t) ==
    LET i == IndexOf(c.list, key)
    IN  IF i = 0
        THEN [cache |-> c, hit |-> FALSE, value |-> <<>>]
        ELSE IF IsStale(c, i, t)
        THEN [cache |-> [c EXCEPT !.list = RemoveAt(c.list, i)],
              hit |-> FALSE, value |-> <<>>]
        ELSE [cache |-> [c EXCEPT !.list = Append(RemoveAt(c.list, i), c.list[i])],
              hit |-> TRUE, value |-> c.list[i].value]

\* LRUCache.set: an existing key gets the new value, a fresh ttl and becomes the
\* most recently used; a new key is appended, after the least recently used
\* entry is evicted when the cache already holds max entries.
LRUSet(c, key, value, t) ==
    LET i == IndexOf(c.list, key)
        e == [key |-> key, value |-> value, start |-> t]
    IN  IF i # 0
        THEN [c EXCEPT !.list = Append(RemoveAt(c.list, i), e)]
        ELSE IF Len(c.list) >= c.max
        THEN [c EXCEPT !.list = Append(Tail(c.list), e)]
        ELSE [c EXCEPT !.list = Append(c.list, e)]

\* ---------------------------------------------------------- the limiter
\* (mutant) the cache is built one entry too large
CacheMaxPlusOne(opts) == opts.uniqueTokenPerInterval + 1

\* rateLimit(options): the cache it constructs
CacheMax(opts) == opts.uniqueTokenPerInterval

\* (mutant) the entries expire while their timestamps are still in the window
CacheTtlShort(opts) == opts.interval - 2

CacheTtl(opts) == opts.interval

RateLimit(opts) == NewLRUCache(CacheMax(opts), CacheTtl(opts))

\* tokenCache.get(token) || [0]: what check counts for a key without a live entry
Sentinel == <<0>>

\* (mutant) nothing is pruned
FilterKeepAll(tokenCount, currentTime, interval) == tokenCount

\* (mutant) the window is compared one tick short
FilterShortWindow(tokenCount, currentTime, interval) ==
    SelectSeq(tokenCount, LAMBDA timestamp : currentTime - timestamp < interval - 1)

\* tokenCount.filter(timestamp => currentTime - timestamp < options.interval)
RECURSIVE Filter(_, _, _)
Filter(tokenCount, currentTime, interval) ==
    IF tokenCount = <<>> THEN <<>>
    ELSE LET rest == Filter(Tail(tokenCount), currentTime, interval)
         IN  IF currentTime - Head(tokenCount) < interval
             THEN <<Head(tokenCount)>> \o rest
             ELSE rest

\* (mutant) the comparison written as >
OverLimitStrict(validTimestamps, limit) == Len(validTimestamps) > limit

\* validTimestamps.length >= limit
OverLimit(validTimestamps, limit) == Len(validTimestamps) >= limit

\* limit - validTimestamps.length, after the push
Remaining(limit, validTimestamps) == limit - Len(validTimestamps)

\* (mutant) the pruned array is written back before the limit is tested
CheckBodyWriteOnDeny(c, opts, limit, token, currentTime) ==
    LET got == LRUGet(c, token, currentTime)
        tokenCount == IF got.hit THEN got.value ELSE Sentinel
        validTimestamps == Filter(tokenCount, currentTime, opts.interval)
        pushed == Append(validTimestamps, currentTime)
    IN  IF OverLimit(validTimestamps, limit)
        THEN [cache |-> LRUSet(got.cache, token, validTimestamps, currentTime),
              success |-> FALSE, remaining |-> 0]
        ELSE [cache |-> LRUSet(got.cache, token, pushed, currentTime),
              success |-> TRUE, remaining |-> Remaining(limit, pushed)]

\* (mutant) the pruned array is written back without the current timestamp
CheckBodyNoPush(c, opts, limit, token, currentTime) ==
    LET got == LRUGet(c, token, currentTime)
        tokenCount == IF got.hit THEN got.value ELSE Sentinel
        validTimestamps == Filter(tokenCount, currentTime, opts.interval)
    IN  IF OverLimit(validTimestamps, limit)
        THEN [cache |-> got.cache, success |-> FALSE, remaining |-> 0]
        ELSE [cache |-> LRUSet(got.cache, token, validTimestamps, currentTime),
              success |-> TRUE, remaining |-> Remaining(limit, validTimestamps)]

\* (mutant) every caller is counted under one key
CheckBodySharedKey(c, opts, limit, token, currentTime) ==
    LET got == LRUGet(c, "A", currentTime)
        tokenCount == IF got.hit THEN got.value ELSE Sentinel
        validTimestamps == Filter(tokenCount, currentTime, opts.interval)
        pushed == Append(validTimestamps, currentTime)
    IN  IF OverLimit(validTimestamps, limit)
        THEN [cache |-> got.cache, success |-> FALSE, remaining |-> 0]
        ELSE [cache |-> LRUSet(got.cache, "A", pushed, currentTime),
              success |-> TRUE, remaining |-> Remaining(limit, pushed)]

\* (mutant) a denied call leaves the cache as it was before the get
CheckBodyNoTouch(c, opts, limit, token, currentTime) ==
    LET got == LRUGet(c, token, currentTime)
        tokenCount == IF got.hit THEN got.value ELSE Sentinel
        validTimestamps == Filter(tokenCount, currentTime, opts.interval)
        pushed == Append(validTimestamps, currentTime)
    IN  IF OverLimit(validTimestamps, limit)
        THEN [cache |-> c, success |-> FALSE, remaining |-> 0]
        ELSE [cache |-> LRUSet(got.cache, token, pushed, currentTime),
              success |-> TRUE, remaining |-> Remaining(limit, pushed)]

\* (mutant) the current timestamp is pushed onto the unpruned array, which is stored
CheckBodyNoPrune(c, opts, limit, token, currentTime) ==
    LET got == LRUGet(c, token, currentTime)
        tokenCount == IF got.hit THEN got.value ELSE Sentinel
        validTimestamps == Filter(tokenCount, currentTime, opts.interval)
        pushed == Append(tokenCount, currentTime)
    IN  IF OverLimit(validTimestamps, limit)
        THEN [cache |-> got.cache, success |-> FALSE, remaining |-> 0]
        ELSE [cache |-> LRUSet(got.cache, token, pushed, currentTime),
              success |-> TRUE, remaining |-> Remaining(limit, Append(validTimestamps, currentTime))]

\* One invocation of check(limit, token) at clock currentTime on cache c:
\* the cache it leaves and the verdict it resolves to.
CheckBody(c, opts, limit, token, currentTime) ==
    LET got == LRUGet(c, token, currentTime)
        tokenCount == IF got.hit THEN got.value ELSE Sentinel
        validTimestamps == Filter(tokenCount, currentTime, opts.interval)
        pushed == Append(validTimestamps, currentTime)
    IN  IF OverLimit(validTimestamps, limit)
        THEN [cache |-> got.cache, success |-> FALSE, remaining |-> 0]
        ELSE [cache |-> LRUSet(got.cache, token, pushed, currentTime),
              success |-> TRUE, remaining |-> Remaining(limit, pushed)]

\* ------------------------------------------------------ the caller's key
\* a JavaScript value that is a string, or null or undefined
Str(s) == [null |-> FALSE, str |-> s]

Null == [null |-> TRUE, str |-> ""]

\* what if (v) and v || w test: null, undefined and "" are falsy
Truthy(v) == ~v.null /\ v.str # ""

\* a || b
Or(a, b) == IF Truthy(a) THEN a ELSE b

\* no request yet: no user, no header
NoRequest == [userId |-> Null, forwarded |-> Null, real |-> Null]

NoResponse == [identifier |-> ""]

\* (mutant) the real-address header is consulted before the forwarded one
GetRateLimitIdentifierRealFirst(r, userId) ==
    IF Truthy(userId)
    THEN "user:" \o userId.str
    ELSE LET ip == Or(Or(r.real, r.forwarded), Str("unknown"))
         IN  "ip:" \o ip.str

\* getRateLimitIdentifier(req, userId), with r.forwarded and r.real what
\* req.headers.get returns for 'x-forwarded-for' and 'x-real-ip'
GetRateLimitIdentifier(r, userId) ==
    IF Truthy(userId)
    THEN "user:" \o userId.str
    ELSE LET ip == Or(Or(r.forwarded, r.real), Str("unknown"))
         IN  "ip:" \o ip.str

\* contentType.toLowerCase(), for the header values the requests carry
ToLowerCase(s) ==
    CASE s = "Application/JSON; charset=utf-8" -> "application/json; charset=utf-8"
      [] OTHER -> s

\* contentType.startsWith(prefix)
StartsWith(s, prefix) == Len(s) >= Len(prefix) /\ SubSeq(s, 1, Len(prefix)) = prefix

\* validateContentType(req, expectedType), with contentType what
\* req.headers.get('content-type') returns
ValidateContentType(contentType, expectedType) ==
    IF ~Truthy(contentType) THEN FALSE
    ELSE StartsWith(ToLowerCase(contentType.str), ToLowerCase(expectedType))

\* ------------------------------------------------- the route handlers
\* GET and POST of api/test-records, GET, PUT and DELETE of api/test-records/[id]
Handlers == {"GET", "POST", "GET_ID", "PUT", "DELETE"}

\* POST and PUT validate the Content-Type before they consult the limiter
NeedsJson(handler) == handler \in {"POST", "PUT"}

\* the users whose requests reach the handlers; Null is a request auth()
\* finds no user for
ApiUsers == {Null, Str("u1"), Str("u2")}

\* apiLimiter = rateLimit({ interval: 60 * 1000, uniqueTokenPerInterval: 500 }),
\* scaled: the interval under check, and room for one user fewer than there
\* are, so that the store evicts
ApiOptions == [interval |-> Interval,
               uniqueTokenPerInterval |-> Cardinality(ApiUsers \ {Null}) - 1]

\* the literal limit of apiLimiter.check(20, identifier), the same in every
\* handler, scaled to the largest limit under check
ApiLimit == MaxLimit

\* (mutant) one handler checks with a limit of its own
HandlerLimitOwn(handler) == IF handler = "DELETE" THEN ApiLimit + 1 ELSE ApiLimit

\* the limit a handler passes to apiLimiter.check
HandlerLimit(handler) == ApiLimit

\* (mutant) POST and PUT validate the Content-Type after the limiter's verdict
HandlerBodyLimitFirst(c, opts, handler, r, t) ==
    LET identifier == GetRateLimitIdentifier(r, r.userId)
        v == CheckBody(c, opts, HandlerLimit(handler), identifier, t)
        stop(status, cache) == [status |-> status, checked |-> FALSE, identifier |-> "",
                                success |-> FALSE, remaining |-> 0, cache |-> cache]
    IN  IF ~Truthy(r.userId) THEN stop(401, c)
        ELSE IF ~v.success
        THEN [status |-> 429, checked |-> TRUE, identifier |-> identifier,
              success |-> FALSE, remaining |-> 0, cache |-> v.cache]
        ELSE IF NeedsJson(handler) /\ ~ValidateContentType(r.contentType, "application/json")
        THEN stop(415, v.cache)
        ELSE [status |-> 0, checked |-> TRUE, identifier |-> identifier,
              success |-> TRUE, remaining |-> v.remaining, cache |-> v.cache]

\* A handler up to the limiter's verdict, on cache c at clock t: the status it
\* answers when it stops there (0 when it goes on to the database), whether
\* it consulted the limiter, the identifier, the verdict and the cache it leaves.
HandlerBody(c, opts, handler, r, t) ==
    LET identifier == GetRateLimitIdentifier(r, r.userId)
        v == CheckBody(c, opts, HandlerLimit(handler), identifier, t)
        stop(status) == [status |-> status, checked |-> FALSE, identifier |-> "",
                         success |-> FALSE, remaining |-> 0, cache |-> c]
    IN  IF ~Truthy(r.userId) THEN stop(401)
        ELSE IF NeedsJson(handler) /\ ~ValidateContentType(r.contentType, "application/json")
        THEN stop(415)
        ELSE [status |-> IF v.success THEN 0 ELSE 429, checked |-> TRUE,
              identifier |-> identifier, success |-> v.success,
              remaining |-> v.remaining, cache |-> v.cache]

\* the value of X-RateLimit-Remaining on a response that does not carry it
NoHeader == -1

\* handleApiError(error) for a thrown ApiError(status, ...): the response has
\* that status and sets no X-RateLimit-Remaining; the database calls counted
\* are those made before the throw
HandleApiError(status, reads) ==
    [status |-> status, header |-> NoHeader, reads |-> reads, writes |-> 0]

\* (mutant) the handler queries the database before it tests the verdict
HandlerResponseReadFirst(h, handler, titled, found) ==
    IF h.status # 0 THEN HandleApiError(h.status, IF h.checked THEN 1 ELSE 0)
    ELSE [status |-> 200, header |-> h.remaining, reads |-> 1, writes |-> 0]

\* A handler from the limiter's verdict on: h is what HandlerBody left,
\* titled whether the JSON body has a string title, found whether the record
\* named by the request belongs to the user. The response has the status, the
\* X-RateLimit-Remaining header, and the numbers of database reads and writes
\* the request made.
HandlerResponse(h, handler, titled, found) ==
    LET ok(status, reads, writes) ==
            [status |-> status, header |-> h.remaining, reads |-> reads, writes |-> writes]
    IN  IF h.status # 0 THEN HandleApiError(h.status, 0)
        ELSE IF handler = "GET" THEN ok(200, 1, 0)
        ELSE IF handler = "POST"
        THEN IF ~titled THEN HandleApiError(400, 0) ELSE ok(201, 0, 1)
        ELSE IF ~found THEN HandleApiError(404, 1)
        ELSE IF handler = "GET_ID" THEN ok(200, 1, 0)
        ELSE ok(200, 1, 1)

\* -------------------------------------------------------------- history
\* the entry a key has in the list: present, live (not stale at t), value, start
EntryAt(c, key, t) ==
    IF HasKey(c.list, key)
    THEN [present |-> TRUE, live |-> ~IsStale(c, IndexOf(c.list, key), t),
          value |-> EntryOf(c.list, key).value, start |-> EntryOf(c.list, key).start]
    ELSE [present |-> FALSE, live |-> FALSE, value |-> <<>>, start |-> 0]

NoBefore == [at |-> 0, entry |-> EntryAt(NewLRUCache(0, 0), "A", 0)]

\* The limiter takes keys as opaque strings: the history of one key is kept.
Watched == "A"

\* of the invocations for Watched:
\*   denied, at    whether the latest was a denied one with limit > 0, and when it ran
\*   retried       what the latest returned, when it had limit > 0 and came more
\*                 than interval after a denied one with no other in between
\*   limit         the limit they are all made with, when it is fixed
\*   ok, okRemaining   how many were allowed (up to 2), the remaining of the latest
\*   okPrevious    the remaining of the allowed one before that
\*   okIntact      whether the latest allowed one found the entry live with
\*                 every timestamp still in the window
NoCall == [denied |-> FALSE, at |-> 0, retried |-> "none", limit |-> 0,
           ok |-> 0, okRemaining |-> 0, okPrevious |-> 0, okIntact |-> FALSE]

NoKey == "-"

NoLast == [called |-> FALSE, key |-> "A", limit |-> 0, success |-> FALSE, remaining |-> 0]

\* the run that began with the first invocation ever made for Watched, while
\* it lasts: the invocations that follow it directly, with the same limit and
\* the same key, less than interval after the first
\*   limit, first  its limit and the clock of its first invocation
\*   n, ok         how many invocations it has, and how many were allowed
\*   fresh, within whether it is recorded (n > 0)
\*   seen          whether check was ever invoked for Watched
NoRun == [limit |-> 0, first |-> 0, within |-> FALSE, n |-> 0, ok |-> 0,
          fresh |-> FALSE, seen |-> FALSE]

\* the run counters stop counting here, above every count a claim reads
RunCap == MaxLimit + 2

Min2(a, b) == IF a <= b THEN a ELSE b

Without(seq, x) == SelectSeq(seq, LAMBDA y : y # x)

\* --------------------------------------------------------------- states
InitWith(opts, t, hidden, fixedLimit) ==
    /\ now = t
    /\ options = opts
    /\ tokenCache = RateLimit(opts)
    /\ last = NoLast
    /\ before = NoBefore
    /\ touched = [order |-> <<>>, evicted |-> NoKey, oldest |-> NoKey]
    /\ hist = [NoCall EXCEPT !.limit = fixedLimit]
    /\ run = NoRun
    /\ pending = <<>>
    /\ shadow = [hidden |-> hidden, cache |-> RateLimit(opts), evicted |-> NoKey,
                 fed |-> FALSE, same |-> TRUE, clean |-> TRUE, done |-> FALSE]
    /\ log = <<>>
    /\ req = NoRequest
    /\ res = NoResponse

Init == InitWith([interval |-> Interval, uniqueTokenPerInterval |-> MaxKeys], 0, "A", 0)

\* -------------------------------------------------------------- actions
\* check(limit, token) runs to its return, at the current clock
CheckCore(limit, token) ==
    /\ tokenCache' = CheckBody(tokenCache, options, limit, token, now).cache
    /\ UNCHANGED <<now, options>>

\* The clock advances between invocations.
Tick ==
    /\ now < MaxTime
    /\ now' = now + 1
    /\ UNCHANGED <<options, tokenCache, last, before, touched, hist, run, pending, shadow, log, req, res>>

\* A caller awaits check(limit, token) and goes on with its verdict.
Check(limit, token) ==
    LET r == CheckBody(tokenCache, options, limit, token, now)
    IN  /\ CheckCore(limit, token)
        /\ last' = [called |-> TRUE, key |-> token, limit |-> limit,
                    success |-> r.success, remaining |-> r.remaining]
        /\ UNCHANGED <<before, touched, hist, run, pending, shadow, log, req, res>>

Next ==
    \/ Tick
    \/ \E limit \in Limits, token \in Keys : Check(limit, token)

Spec == Init /\ [][Next]_vars

\* --- the same, keeping the entry the key had when the invocation began
CheckStore(limit, token) ==
    LET r == CheckBody(tokenCache, options, limit, token, now)
    IN  /\ CheckCore(limit, token)
        /\ last' = [called |-> TRUE, key |-> token, limit |-> limit,
                    success |-> r.success, remaining |-> r.remaining]
        /\ before' = [at |-> now, entry |-> EntryAt(tokenCache, token, now)]
        /\ UNCHANGED <<touched, hist, run, pending, shadow, log, req, res>>

NextStore ==
    \/ Tick
    \/ \E limit \in Limits, token \in Keys : CheckStore(limit, token)

SpecStore == Init /\ [][NextStore]_vars

\* --- the same, keeping the order in which check touched the keys, and, when
\* the invocation evicted a key, that key and the key that had gone longest
\* without a touch among those the cache held
LeastRecentlyTouched(order, list) ==
    LET held == SelectSeq(order, LAMBDA k : HasKey(list, k))
    IN  IF held = <<>> THEN NoKey ELSE Head(held)

CheckTouch(limit, token) ==
    LET r == CheckBody(tokenCache, options, limit, token, now)
        gone == {k \in KeysOf(tokenCache.list) \ {token} : ~HasKey(r.cache.list, k)}
    IN  /\ CheckCore(limit, token)
        /\ touched' = [order |-> Append(Without(touched.order, token), token),
                       evicted |-> IF gone = {} THEN NoKey ELSE CHOOSE k \in gone : TRUE,
                       oldest |-> IF gone = {} THEN NoKey
                                  ELSE LeastRecentlyTouched(touched.order, tokenCache.list)]
        /\ UNCHANGED <<last, before, hist, run, pending, shadow, log, req, res>>

NextLRU ==
    \/ Tick
    \/ \E limit \in Limits, token \in Keys : CheckTouch(limit, token)

SpecLRU == Init /\ [][NextLRU]_vars

\* --- the same, keeping whether the latest invocation for Watched was denied
CheckDenied(limit, token) ==
    LET r == CheckBody(tokenCache, options, limit, token, now)
    IN  /\ CheckCore(limit, token)
        /\ hist' = IF token # Watched THEN hist
                   ELSE [hist EXCEPT !.denied = ~r.success /\ limit > 0,
                                     !.at = IF ~r.success /\ limit > 0 THEN now ELSE 0,
                                     !.retried =
                                        IF limit > 0 /\ hist.denied
                                           /\ now - hist.at > options.interval
                                        THEN (IF r.success THEN "allowed" ELSE "denied")
                                        ELSE "none"]
        /\ UNCHANGED <<last, before, touched, run, pending, shadow, log, req, res>>

NextDenied ==
    \/ Tick
    \/ \E limit \in Limits, token \in Keys : CheckDenied(limit, token)

SpecDenied == Init /\ [][NextDenied]_vars

\* --- the same, every invocation for Watched made with one fixed limit,
\* keeping what its latest allowed invocation returned
InitFixed ==
    \E limit \in 1..MaxLimit :
        InitWith([interval |-> Interval, uniqueTokenPerInterval |-> MaxKeys], 0, "A", limit)

CheckFixed(limit, token) ==
    LET r == CheckBody(tokenCache, options, limit, token, now)
        was == EntryAt(tokenCache, token, now)
    IN  /\ token = Watched => limit = hist.limit
        /\ CheckCore(limit, token)
        /\ hist' = IF token = Watched /\ r.success
                   THEN [hist EXCEPT !.ok = Min2(hist.ok + 1, 2),
                                     !.okRemaining = r.remaining,
                                     !.okPrevious = hist.okRemaining,
                                     !.okIntact =
                                        was.live /\ Filter(was.value, now, options.interval)
                                                      = was.value]
                   ELSE hist
        /\ UNCHANGED <<last, before, touched, run, pending, shadow, log, req, res>>

NextFixed ==
    \/ Tick
    \/ \E limit \in Limits, token \in Keys : CheckFixed(limit, token)

SpecFixed == InitFixed /\ [][NextFixed]_vars

\* --- concurrent callers: invocations run one after the other (the body of
\* check never yields), their promises are delivered later, in order
Invoke(limit, token) ==
    LET r == CheckBody(tokenCache, options, limit, token, now)
        same == run.n > 0 /\ run.limit = limit
        ok == IF r.success THEN 1 ELSE 0
        void == [NoRun EXCEPT !.seen = run.seen \/ token = Watched]
    IN  /\ Len(pending) < MaxPending
        /\ CheckCore(limit, token)
        /\ pending' = Append(pending, [success |-> r.success, remaining |-> r.remaining])
        /\ run' = IF token # Watched THEN void
                  ELSE IF same /\ now - run.first < options.interval
                  THEN [run EXCEPT !.n = Min2(run.n + 1, RunCap),
                                   !.ok = Min2(run.ok + ok, RunCap)]
                  ELSE IF ~same /\ ~run.seen
                  THEN [limit |-> limit, first |-> now, within |-> TRUE, n |-> 1,
                        ok |-> ok, fresh |-> TRUE, seen |-> TRUE]
                  ELSE void
        /\ UNCHANGED <<last, before, touched, hist, shadow, log, req, res>>

Deliver ==
    /\ pending # <<>>
    /\ pending' = Tail(pending)
    /\ UNCHANGED <<now, options, tokenCache, last, before, touched, hist, run, shadow, log, req, res>>

NextRun ==
    \/ Tick
    \/ \E limit \in Limits, token \in Keys : Invoke(limit, token)
    \/ Deliver

SpecRun == Init /\ [][NextRun]_vars

\* --- two limiters side by side: the second is fed every call but those of
\* the key shadow.hidden. Once the first limiter has evicted a key, the key
\* it evicted is called once more, and the comparison ends.
\*   evicted   the key the first limiter evicted, if it has evicted one
\*   fed       whether the latest call went to both limiters
\*   same      whether both returned the same verdict to it
\*   clean     whether the first limiter had evicted no key when it began
\*   done      whether the evicted key has been called again
InitPair == InitWith([interval |-> Interval, uniqueTokenPerInterval |-> MaxKeys], 0, Watched, 0)

CheckPair(limit, token) ==
    LET r == CheckBody(tokenCache, options, limit, token, now)
        r2 == CheckBody(shadow.cache, options, limit, token, now)
        gone == {k \in KeysOf(tokenCache.list) \ {token} : ~HasKey(r.cache.list, k)}
    IN  /\ ~shadow.done
        /\ shadow.evicted # NoKey => token = shadow.evicted
        /\ CheckCore(limit, token)
        /\ shadow' = [hidden |-> shadow.hidden,
                      cache |-> IF token = shadow.hidden THEN shadow.cache ELSE r2.cache,
                      evicted |-> IF shadow.evicted # NoKey \/ gone = {} THEN shadow.evicted
                                  ELSE CHOOSE k \in gone : TRUE,
                      fed |-> token # shadow.hidden,
                      same |-> token # shadow.hidden
                               => (r.success = r2.success /\ r.remaining = r2.remaining),
                      clean |-> shadow.evicted = NoKey,
                      done |-> shadow.evicted # NoKey]
        /\ UNCHANGED <<last, before, touched, hist, run, pending, log, req, res>>

NextPair ==
    \/ Tick
    \/ \E limit \in Limits, token \in Keys : CheckPair(limit, token)

SpecPair == InitPair /\ [][NextPair]_vars

\* --- the scripted scenario: limit 3, interval 1000 ms, one key, from t = 0
InitScenario == InitWith([interval |-> 1000, uniqueTokenPerInterval |-> MaxKeys], 0, "A", 0)

ScenarioTick ==
    /\ now < 1100
    /\ now' = now + 50
    /\ UNCHANGED <<options, tokenCache, last, before, touched, hist, run, pending, shadow, log, req, res>>

ScenarioCheck ==
    LET r == CheckBody(tokenCache, options, 3, "A", now)
    IN  /\ Len(log) < 5
        /\ CheckCore(3, "A")
        /\ log' = Append(log, [at |-> now, success |-> r.success, remaining |-> r.remaining])
        /\ UNCHANGED <<last, before, touched, hist, run, pending, shadow, req, res>>

NextScenario == ScenarioTick \/ ScenarioCheck

SpecScenario == InitScenario /\ [][NextScenario]_vars

\* --- the same, keeping that Watched was checked and when its latest
\* check ran
CheckIdle(limit, token) ==
    /\ CheckCore(limit, token)
    /\ last' = IF token # Watched THEN last ELSE [NoLast EXCEPT !.called = TRUE]
    /\ before' = IF token # Watched THEN before ELSE [NoBefore EXCEPT !.at = now]
    /\ UNCHANGED <<touched, hist, run, pending, shadow, log, req, res>>

NextIdle ==
    \/ Tick
    \/ \E limit \in Limits, token \in Keys : CheckIdle(limit, token)

SpecIdle == Init /\ [][NextIdle]_vars

\* --- the same, called with limits that are not positive too, keeping the
\* latest invocation when it was for Watched with a limit that is not
\* positive: its verdict, when it ran and the entry the key had
NonPositive == {-1, 0}

CheckZero(limit, token) ==
    LET r == CheckBody(tokenCache, options, limit, token, now)
    IN  /\ CheckCore(limit, token)
        /\ last' = IF limit > 0 \/ token # Watched THEN NoLast
                   ELSE [called |-> TRUE, key |-> token, limit |-> limit,
                         success |-> r.success, remaining |-> r.remaining]
        /\ before' = IF limit > 0 \/ token # Watched THEN NoBefore
                     ELSE [at |-> now, entry |-> EntryAt(tokenCache, token, now)]
        /\ UNCHANGED <<touched, hist, run, pending, shadow, log, req, res>>

NextZero ==
    \/ Tick
    \/ \E limit \in NonPositive \cup Limits, token \in Keys : CheckZero(limit, token)

SpecZero == Init /\ [][NextZero]_vars

\* --- the callers of one key awaiting their verdicts: an invocation runs to
\* its return and its resolved promise is queued; the event loop runs the continuation of
\* every resolved promise, so delivery is weakly fair
Call(limit, token) ==
    LET r == CheckBody(tokenCache, options, limit, token, now)
    IN  /\ Len(pending) < MaxPending
        /\ CheckCore(limit, token)
        /\ pending' = Append(pending, [success |-> r.success, remaining |-> r.remaining])
        /\ UNCHANGED <<last, before, touched, hist, run, shadow, log, req, res>>

NextAwait ==
    \/ Tick
    \/ \E limit \in Limits : Call(limit, Watched)
    \/ Deliver

SpecAwait == Init /\ [][NextAwait]_vars /\ WF_vars(Deliver)

\* --- key derivation on its own: requests arrive with or without a user
\* and with or without each address header, and are identified
UserIds == {Null, Str(""), Str("u1"), Str("u2")}

Addresses == {Null, Str(""), Str("10.0.0.1"), Str("10.0.0.2"), Str("unknown")}

Requests == [userId : UserIds, forwarded : Addresses, real : Addresses]

Arrive ==
    /\ req' \in Requests
    /\ res' = NoResponse
    /\ UNCHANGED <<now, options, tokenCache, last, before, touched, hist, run, pending,
                   shadow, log>>

Identify ==
    /\ res = NoResponse
    /\ res' = [identifier |-> GetRateLimitIdentifier(req, req.userId)]
    /\ UNCHANGED <<now, options, tokenCache, last, before, touched, hist, run, pending,
                   shadow, log, req>>

NextIdentify == Arrive \/ Identify

SpecIdentify == Init /\ [][NextIdentify]_vars

\* --- key derivation for two requests: log keeps the requests identified, two
\* at most, each with the key it was given
Receive(r) ==
    /\ Len(log) < 2
    /\ req' = r
    /\ res' = [identifier |-> GetRateLimitIdentifier(r, r.userId)]
    /\ log' = Append(log, [req |-> r, identifier |-> GetRateLimitIdentifier(r, r.userId)])
    /\ UNCHANGED <<now, options, tokenCache, last, before, touched, hist, run, pending,
                   shadow>>

Forget ==
    /\ log # <<>>
    /\ log' = <<>>
    /\ UNCHANGED <<now, options, tokenCache, last, before, touched, hist, run, pending,
                   shadow, req, res>>

NextAlias == (\E r \in Requests : Receive(r)) \/ Forget

SpecAlias == Init /\ [][NextAlias]_vars

\* --- the route handlers sharing apiLimiter: requests of two users, or of
\* nobody, reach any handler in any order. Each handler's steps before and
\* after apiLimiter.check touch nothing shared, so a request is one step,
\* taken when its check runs. log keeps the requests of WatchedUser that
\* passed the limiter less than interval ago (one more than ApiLimit at most),
\* each with whether the user's entry has stayed in the store since.
WatchedUser == "u1"

ContentTypes == {Null, Str("Application/JSON; charset=utf-8"), Str("text/plain")}

ApiRequests == [userId : ApiUsers, forwarded : {Str("10.0.0.1")}, real : {Null},
                contentType : ContentTypes]

InitApi == InitWith(ApiOptions, 0, "A", 0)

InWindow(passes, t) == SelectSeq(passes, LAMBDA p : t - p.at < options.interval)

Handle(handler, r) ==
    LET h == HandlerBody(tokenCache, options, handler, r, now)
        key == "user:" \o WatchedUser
        evicted == /\ h.identifier # key
                   /\ HasKey(tokenCache.list, key)
                   /\ ~HasKey(h.cache.list, key)
        recent == InWindow(log, now)
        kept == IF evicted THEN [i \in 1..Len(recent) |-> [recent[i] EXCEPT !.clean = FALSE]]
                ELSE recent
    IN  /\ tokenCache' = h.cache
        /\ log' = IF h.success /\ h.identifier = key /\ Len(kept) <= ApiLimit
                  THEN Append(kept, [at |-> now, clean |-> TRUE])
                  ELSE kept
        /\ UNCHANGED <<now, options, last, before, touched, hist, run, pending, shadow,
                       req, res>>

NextApi ==
    \/ Tick
    \/ \E handler \in Handlers, r \in ApiRequests : Handle(handler, r)

SpecApi == InitApi /\ [][NextApi]_vars

\* --- the route handlers from request to response. A request is one step
\* (see above); res keeps, of the latest request, what HandlerBody left of it
\* (without the cache), the response, whether the cache is as it was before
\* the request, and by how much the request raised validTimestamps.length, the
\* number that check compares with the limit, for the identifier.
InWindowOf(c, key, t) ==
    Len(Filter(IF EntryAt(c, key, t).live THEN EntryOf(c.list, key).value ELSE Sentinel,
               t, options.interval))

Serve(handler, r, titled, found) ==
    \E h \in {HandlerBody(tokenCache, options, handler, r, now)},
       identifier \in {GetRateLimitIdentifier(r, r.userId)} :
        /\ tokenCache' = h.cache
        /\ req' = [userId |-> r.userId, forwarded |-> r.forwarded, real |-> r.real]
        /\ res' = [identifier |-> h.identifier, handler |-> handler,
                   checked |-> h.checked, success |-> h.success,
                   remaining |-> h.remaining,
                   response |-> HandlerResponse(h, handler, titled, found),
                   untouched |-> (h.cache = tokenCache),
                   gained |-> InWindowOf(h.cache, identifier, now)
                                 - InWindowOf(tokenCache, identifier, now)]
        /\ UNCHANGED <<now, options, last, before, touched, hist, run, pending, shadow,
                       log>>

NextHandlers ==
    \/ Tick
    \/ \E handler \in Handlers, r \in ApiRequests, titled \in BOOLEAN, found \in BOOLEAN :
          Serve(handler, r, titled, found)

SpecHandlers == InitApi /\ [][NextHandlers]_vars

\* --- check statement by statement. pending holds the invocations that
\* were called and have not returned, each a frame:
\*   pc      "start" (called), "got" (after tokenCache.get and Date.now()),
\*           "allowed" (after the filter and the test of the limit, going on
\*           to push and set)
\*   tokenCount, at   what it read: the array, and the clock
\*   seen    the cache as its get left it
\* JavaScript runs one invocation at a time, to its next await: another
\* invocation runs only when no frame is in the middle of its body, unless
\* that frame is suspended.
\* (mutant) the body awaits between get and the filter
SuspendsAfterGet(pc) == pc = "got"

\* the places where the body of check suspends: it holds no await
Suspends(pc) == FALSE

NoCache == NewLRUCache(0, 0)

Running(f) == ~Suspends(f.pc)

OthersIdle(i) == \A j \in 1..Len(pending) : j # i => ~Running(pending[j])

\* check(limit, token) is called
Begin(limit, token) ==
    /\ Len(pending) < MaxPending
    /\ OthersIdle(0)
    /\ pending' = Append(pending, [key |-> token, limit |-> limit, pc |-> "start",
                                   tokenCount |-> <<>>, at |-> 0, seen |-> NoCache])
    /\ UNCHANGED <<now, options, tokenCache, last, before, touched, hist, run, shadow, log,
                   req, res>>

\* const tokenCount = tokenCache.get(token) || [0]; const currentTime = Date.now()
StepGet(i) ==
    LET f == pending[i]
        got == LRUGet(tokenCache, f.key, now)
    IN  /\ f.pc = "start"
        /\ OthersIdle(i)
        /\ tokenCache' = got.cache
        /\ pending' = [pending EXCEPT ![i] =
                          [f EXCEPT !.pc = "got", !.at = now, !.seen = got.cache,
                                    !.tokenCount = IF got.hit THEN got.value ELSE Sentinel]]
        /\ UNCHANGED <<now, options, last, before, touched, hist, run, shadow, log, req, res>>

\* the filter and if (validTimestamps.length >= limit) return { success: false, remaining: 0 }
StepDecide(i) ==
    LET f == pending[i]
        validTimestamps == Filter(f.tokenCount, f.at, options.interval)
    IN  /\ f.pc = "got"
        /\ OthersIdle(i)
        /\ pending' = IF OverLimit(validTimestamps, f.limit)
                      THEN RemoveAt(pending, i)
                      ELSE [pending EXCEPT ![i] =
                               [f EXCEPT !.pc = "allowed", !.tokenCount = validTimestamps]]
        /\ UNCHANGED <<now, options, tokenCache, last, before, touched, hist, run, shadow,
                       log, req, res>>

\* validTimestamps.push(currentTime); tokenCache.set(token, validTimestamps);
\* return { success: true, remaining: limit - validTimestamps.length }
StepSet(i) ==
    LET f == pending[i]
        pushed == Append(f.tokenCount, f.at)
    IN  /\ f.pc = "allowed"
        /\ OthersIdle(i)
        /\ tokenCache' = LRUSet(tokenCache, f.key, pushed, now)
        /\ pending' = RemoveAt(pending, i)
        /\ UNCHANGED <<now, options, last, before, touched, hist, run, shadow, log, req, res>>

\* the body runs within one reading of the clock: time passes between
\* invocations, or while one is suspended
TickBetween == OthersIdle(0) /\ Tick

NextSteps ==
    \/ TickBetween
    \/ \E limit \in Limits, token \in Keys : Begin(limit, token)
    \/ \E i \in 1..Len(pending) : StepGet(i) \/ StepDecide(i) \/ StepSet(i)

SpecSteps == Init /\ [][NextSteps]_vars

\* --- check called for any key, for Watched always with the largest limit,
\* for the other keys with that limit or with limit 0 (a get without a set).
\* log keeps the allowed invocations for Watched made less than interval ago,
\* each with whether the key's entry has stayed in the store since. Once the
\* window holds more of them than the limit, no call is made until it has
\* slid on.
InitWindow ==
    InitWith([interval |-> Interval, uniqueTokenPerInterval |-> MaxKeys], 0, "A", MaxLimit)

CheckWindow(limit, token) ==
    LET r == CheckBody(tokenCache, options, limit, token, now)
        evicted == /\ token # Watched
                   /\ HasKey(tokenCache.list, Watched)
                   /\ ~HasKey(r.cache.list, Watched)
        recent == InWindow(log, now)
        kept == IF evicted THEN [i \in 1..Len(recent) |-> [recent[i] EXCEPT !.clean = FALSE]]
                ELSE recent
    IN  /\ limit = hist.limit \/ (token # Watched /\ limit = 0)
        /\ Len(recent) <= hist.limit
        /\ CheckCore(limit, token)
        /\ log' = IF r.success /\ token = Watched
                  THEN Append(kept, [at |-> now, clean |-> TRUE])
                  ELSE kept
        /\ UNCHANGED <<last, before, touched, hist, run, pending, shadow, req, res>>

NextWindow ==
    \/ Tick
    \/ \E limit \in Limits, token \in Keys : CheckWindow(limit, token)

SpecWindow == InitWindow /\ [][NextWindow]_vars

\* ------------------------------------------------ what an allowed check writes
\* before keeps, of the latest invocation when it was an allowed one for
\* Watched, when it ran and the entry that the key had then.
CheckWritten(limit, token) ==
    LET r == CheckBody(tokenCache, options, limit, token, now)
        kept == r.success /\ token = Watched
    IN  /\ CheckCore(limit, token)
        /\ last' = IF kept THEN [NoLast EXCEPT !.called = TRUE] ELSE NoLast
        /\ before' = IF kept THEN [at |-> now, entry |-> EntryAt(tokenCache, token, now)]
                     ELSE NoBefore
        /\ UNCHANGED <<touched, hist, run, pending, shadow, log, req, res>>

NextWritten ==
    \/ Tick
    \/ \E limit \in Limits, token \in Keys : CheckWritten(limit, token)

SpecWritten == Init /\ [][NextWritten]_vars

\* ------------------------------------------- one key, call sites of any limit
\* log keeps the allowed invocations for Watched made less than interval ago,
\* whatever their limit, each with whether the key's entry has stayed in the
\* store since. The other keys are called with the largest limit; no call is
\* made while the window holds more than MaxLimit allowed ones.
CheckShared(limit, token) ==
    LET r == CheckBody(tokenCache, options, limit, token, now)
        evicted == /\ token # Watched
                   /\ HasKey(tokenCache.list, Watched)
                   /\ ~HasKey(r.cache.list, Watched)
        recent == InWindow(log, now)
        kept == IF evicted THEN [i \in 1..Len(recent) |-> [recent[i] EXCEPT !.clean = FALSE]]
                ELSE recent
    IN  /\ token # Watched => limit = MaxLimit
        /\ Len(recent) <= MaxLimit
        /\ CheckCore(limit, token)
        /\ log' = IF r.success /\ token = Watched
                  THEN Append(kept, [at |-> now, clean |-> TRUE])
                  ELSE kept
        /\ UNCHANGED <<last, before, touched, hist, run, pending, shadow, req, res>>

NextShared == Tick \/ \E limit \in Limits, token \in Keys : CheckShared(limit, token)

SpecShared == Init /\ [][NextShared]_vars

\* ------------------------------------------------ recency of a checked key
\* touched is kept as above; last keeps, of the latest invocation when its key
\* had a live entry, the key and whether it was allowed. Recency does not
\* depend on the limit beyond the verdict: the calls are made with limit 0
\* (always denied) or the largest limit.
CheckRecency(limit, token) ==
    LET gone == {k \in KeysOf(tokenCache.list) \ {token} : ~HasKey(tokenCache'.list, k)}
    IN  /\ CheckCore(limit, token)
        /\ touched' = [order |-> Append(Without(touched.order, token), token),
                       evicted |-> IF gone = {} THEN NoKey ELSE CHOOSE k \in gone : TRUE,
                       oldest |-> IF gone = {} THEN NoKey
                                  ELSE LeastRecentlyTouched(touched.order, tokenCache.list)]
        /\ last' = IF EntryAt(tokenCache, token, now).live
                   THEN [NoLast EXCEPT !.called = TRUE, !.key = token,
                                       !.success = CheckBody(tokenCache, options, limit, token, now).success]
                   ELSE NoLast
        /\ UNCHANGED <<before, hist, run, pending, shadow, log, req, res>>

NextRecency ==
    \/ Tick
    \/ \E limit \in {0, MaxLimit}, token \in Keys : CheckRecency(limit, token)

SpecRecency == Init /\ [][NextRecency]_vars

\* ------------------------------------------------------ the ttl of an entry
\* last and before keep, of the latest invocation when it was for Watched,
\* whether it was allowed, when it ran and the entry that the key had then.
CheckTtl(limit, token) ==
    /\ CheckCore(limit, token)
    /\ last' = IF token # Watched THEN NoLast
               ELSE [NoLast EXCEPT !.called = TRUE,
                        !.success = CheckBody(tokenCache, options, limit, token, now).success]
    /\ before' = IF token # Watched THEN NoBefore
                 ELSE [at |-> now, entry |-> EntryAt(tokenCache, token, now)]
    /\ UNCHANGED <<touched, hist, run, pending, shadow, log, req, res>>

NextTtl ==
    \/ Tick
    \/ \E limit \in Limits, token \in Keys : CheckTtl(limit, token)

SpecTtl == Init /\ [][NextTtl]_vars

\* ------------------------------------------- beside a store that never expires
\* shadow.cache is the cache of the same limiter built without ttl: it is
\* given every call that tokenCache is given, at the same clock.
\*   fed     a call has been made for a key whose entry in tokenCache had expired
\*   clean   no such call was a denied one
\*   same    every call so far got the same verdict from both
\* No call is made once a verdict has differed, and one denied call at most
\* is made for a key whose entry had expired, followed by as many calls as the
\* store holds keys (run.n counts them). The keys other than Watched are
\* called with limit 0 or the largest limit.
NoExpiry == MaxTime + 1

InitNoTtl ==
    /\ now = 0
    /\ options = [interval |-> Interval, uniqueTokenPerInterval |-> MaxKeys]
    /\ tokenCache = RateLimit(options)
    /\ last = NoLast
    /\ before = NoBefore
    /\ touched = [order |-> <<>>, evicted |-> NoKey, oldest |-> NoKey]
    /\ hist = NoCall
    /\ run = NoRun
    /\ pending = <<>>
    /\ shadow = [hidden |-> NoKey, cache |-> NewLRUCache(CacheMax(options), NoExpiry),
                 evicted |-> NoKey, fed |-> FALSE, same |-> TRUE, clean |-> TRUE,
                 done |-> FALSE]
    /\ log = <<>>
    /\ req = NoRequest
    /\ res = NoResponse

CheckNoTtl(limit, token) ==
    \E r \in {CheckBody(tokenCache, options, limit, token, now)},
       r2 \in {CheckBody(shadow.cache, options, limit, token, now)},
       expired \in {HasKey(tokenCache.list, token) /\ ~EntryAt(tokenCache, token, now).live} :
        /\ shadow.same
        /\ token # Watched => limit \in {0, MaxLimit}
        /\ (expired /\ ~r.success) => shadow.clean
        /\ run.n < MaxKeys
        /\ run' = IF shadow.clean THEN run ELSE [run EXCEPT !.n = run.n + 1]
        /\ tokenCache' = r.cache
        /\ shadow' = [shadow EXCEPT !.cache = r2.cache,
                                    !.fed = shadow.fed \/ expired,
                                    !.clean = shadow.clean /\ (expired => r.success),
                                    !.same = r.success = r2.success
                                             /\ r.remaining = r2.remaining]
        /\ UNCHANGED <<now, options, last, before, touched, hist, pending, log, req, res>>

NextNoTtl ==
    \/ Tick
    \/ \E limit \in Limits, token \in Keys : CheckNoTtl(limit, token)

SpecNoTtl == InitNoTtl /\ [][NextNoTtl]_vars

\* --------------------------------------------------------- a blocked key
\* the timestamps stored for a key that are inside the window at t
StoredInWindow(c, key, t) == Len(Filter(EntryAt(c, key, t).value, t, options.interval))

\* last keeps whether the latest invocation for Watched was denied with a
\* limit > 0 that the timestamps stored inside the window had reached, and
\* that limit; before.at keeps when Watched was last allowed.
CheckBlocked(limit, token) ==
    \E r \in {CheckBody(tokenCache, options, limit, token, now)} :
        /\ CheckCore(limit, token)
        /\ last' = IF token # Watched THEN last
                   ELSE IF ~r.success /\ limit > 0
                           /\ StoredInWindow(tokenCache, token, now) >= limit
                   THEN [NoLast EXCEPT !.called = TRUE, !.limit = limit]
                   ELSE NoLast
        /\ before' = IF token = Watched /\ r.success THEN [NoBefore EXCEPT !.at = now]
                     ELSE before
        /\ UNCHANGED <<touched, hist, run, pending, shadow, log, req, res>>

NextBlocked ==
    \/ Tick
    \/ \E limit \in Limits, token \in Keys : CheckBlocked(limit, token)

SpecBlocked == Init /\ [][NextBlocked]_vars

\* ------------------------------------------------- the shape of the entries
\* hist.limit keeps the largest limit of the allowed invocations for Watched,
\* before.at when the latest of them ran.
CheckShape(limit, token) ==
    \E r \in {CheckBody(tokenCache, options, limit, token, now)} :
        /\ CheckCore(limit, token)
        /\ hist' = IF token = Watched /\ r.success /\ limit > hist.limit
                   THEN [hist EXCEPT !.limit = limit] ELSE hist
        /\ before' = IF token = Watched /\ r.success THEN [NoBefore EXCEPT !.at = now]
                     ELSE before
        /\ UNCHANGED <<last, touched, run, pending, shadow, log, req, res>>

NextShape ==
    \/ Tick
    \/ \E limit \in Limits, token \in Keys : CheckShape(limit, token)

SpecShape == Init /\ [][NextShape]_vars

\* ------------------------------------------------ what a call does to other keys
\* touched.evicted keeps the key, other than its own, that the latest
\* invocation removed from the store, NoKey when it removed none.
CheckFrame(limit, token) ==
    /\ CheckCore(limit, token)
    /\ \E gone \in {{k \in KeysOf(tokenCache.list) \ {token} : ~HasKey(tokenCache'.list, k)}} :
          touched' = [touched EXCEPT !.evicted = IF gone = {} THEN NoKey
                                                 ELSE CHOOSE k \in gone : TRUE]
    /\ UNCHANGED <<last, before, hist, run, pending, shadow, log, req, res>>

NextFrame ==
    \/ Tick
    \/ \E limit \in Limits, token \in Keys : CheckFrame(limit, token)

SpecFrame == Init /\ [][NextFrame]_vars

\* =============================================================== claims
\* what check(limit, token) would return, and leave, if it ran now
Verdict(limit, token) == CheckBody(tokenCache, options, limit, token, now)

\* what a reader of the store finds for a key at time t: a stale entry is absent
LiveEntry(c, key, t) ==
    LET e == EntryAt(c, key, t)
    IN  IF e.live THEN [live |-> TRUE, value |-> e.value, start |-> e.start]
        ELSE [live |-> FALSE, value |-> <<>>, start |-> 0]

\* C3: for a positive limit, in every reachable state of the store, an
\* allowed verdict has remaining >= 0 and a denied verdict has remaining = 0;
\* so has the verdict of the invocation that ran last.
C3_RemainingRange ==
    /\ \A limit \in 1..MaxLimit, token \in Keys :
          LET r == Verdict(limit, token)
          IN  IF r.success THEN r.remaining >= 0 ELSE r.remaining = 0
    /\ (last.called /\ last.limit > 0) =>
          IF last.success THEN last.remaining >= 0 ELSE last.remaining = 0

\* an allowed invocation has used up the key's quota, and a further one is denied
C3_Witness ==
    /\ last.called /\ last.success /\ last.limit = MaxLimit /\ last.remaining = 0
    /\ ~Verdict(MaxLimit, last.key).success

\* C4: a denied check leaves the key's entry as it was: the same timestamps
\* and the same ttl start for every reader (the only entry it may drop is one
\* that had already expired, which get deletes), so no later window counts it.
C4_DeniedWritesNothing ==
    \A limit \in Limits, token \in Keys :
        LET r == Verdict(limit, token)
            was == EntryAt(tokenCache, token, now)
            is == EntryAt(r.cache, token, now)
        IN  ~r.success =>
              /\ LiveEntry(r.cache, token, now) = LiveEntry(tokenCache, token, now)
              /\ IF was.live THEN is = was ELSE ~is.present

\* a check was denied while the key holds a live entry of calls made earlier
C4_Witness ==
    /\ last.called /\ ~last.success /\ last.limit > 0
    /\ EntryAt(tokenCache, last.key, now).live
    /\ EntryAt(tokenCache, last.key, now).start < now
    /\ ~Verdict(last.limit, last.key).success

\* C5: an allowed check at time now stores for the key exactly the previously
\* stored timestamps t with now - t < interval, followed by now, and returns
\* remaining = limit minus the length of what it stored.
C5_StoresPrunedThenNow ==
    (last.called /\ last.success) =>
        LET stored == EntryAt(tokenCache, last.key, before.at)
            kept == Filter(before.entry.value, before.at, options.interval)
        IN  /\ stored.present
            /\ stored.value = Append(kept, before.at)
            /\ last.remaining = last.limit - Len(stored.value)

\* How the code behaves instead: a key without a live entry is counted as the
\* one call [0], which stays in the window while now < interval.
C5_AsCoded ==
    (last.called /\ last.success) =>
        LET stored == EntryAt(tokenCache, last.key, before.at)
            counted == IF before.entry.live THEN before.entry.value ELSE Sentinel
        IN  /\ stored.present
            /\ stored.value = Append(Filter(counted, before.at, options.interval), before.at)
            /\ last.remaining = last.limit - Len(stored.value)

\* C1: for a limit > 0 and a key check has never seen, a run of consecutive
\* check(limit, key) calls, all less than interval after the first, allows
\* the first `limit` calls and denies call number limit + 1.
C1_FirstLimitCallsAllowed ==
    (run.n > 0 /\ run.fresh /\ run.limit > 0 /\ run.within /\ run.n <= run.limit + 1)
        => run.ok = Min2(run.n, run.limit)

\* How the code behaves: the claim holds of the runs that begin once the clock
\* has reached interval, and no run is ever allowed more than `limit` calls.
C1_AsCoded ==
    (run.n > 0 /\ run.fresh /\ run.limit > 0 /\ run.within /\ run.n <= run.limit + 1)
        => /\ run.ok <= run.limit
           /\ run.first >= options.interval => run.ok = Min2(run.n, run.limit)

\* the promises waiting for their callers are those of the whole run: promises
\* are delivered in order and the run's invocations are the latest, so they
\* are when there are run.n of them (run.n saturates above MaxPending)
AllInFlight == Len(pending) = run.n

Admitted == Cardinality({i \in 1..Len(pending) : pending[i].success})

\* C2: when N > L > 0 invocations check(L, key) for a key never seen are in
\* flight together, all within one interval, exactly L of them resolve to
\* allowed and the other N - L to denied.
C2_ConcurrentAdmitsExactlyL ==
    (run.fresh /\ run.within /\ run.limit > 0 /\ run.n > run.limit /\ AllInFlight)
        => Admitted = run.limit

\* How the code behaves: never more than L are admitted, and exactly L are
\* once the clock has reached interval.
C2_AsCoded ==
    (run.fresh /\ run.within /\ run.limit > 0 /\ run.n > run.limit /\ AllInFlight)
        => /\ Admitted <= run.limit
           /\ run.first >= options.interval => Admitted = run.limit

\* C6: for a key and a fixed limit, each allowed call returns a remaining that
\* is one less than the remaining of the previous allowed call for that key,
\* and every denied call returns remaining 0.
C6_RemainingDecreasesByOne ==
    /\ hist.ok = 2 => hist.okRemaining = hist.okPrevious - 1
    /\ \A limit \in Limits, token \in Keys :
          ~Verdict(limit, token).success => Verdict(limit, token).remaining = 0

\* C6 as amended: it is one less when the allowed call finds the key's entry
\* live with every timestamp still inside the window, that is when nothing was
\* pruned, evicted or expired since the previous allowed call.
C6_DecreasesWhileWindowIntact ==
    /\ (hist.ok = 2 /\ hist.okIntact) => hist.okRemaining = hist.okPrevious - 1
    /\ LET r == Verdict(hist.limit, Watched)
           was == EntryAt(tokenCache, Watched, now)
       IN  (hist.ok >= 1 /\ r.success /\ was.live
            /\ Filter(was.value, now, options.interval) = was.value)
               => r.remaining = hist.okRemaining - 1
    /\ \A limit \in Limits, token \in Keys :
          ~Verdict(limit, token).success => Verdict(limit, token).remaining = 0

\* two allowed calls in one window, the second with no quota left after it
C6_Witness ==
    /\ hist.ok = 2 /\ hist.okIntact
    /\ hist.okPrevious = 1 /\ hist.okRemaining = 0
    /\ ~Verdict(hist.limit, Watched).success

\* C7: when the latest check of a key, made with limit > 0, was denied and more
\* than interval has passed since without a check of that key, the next
\* check(limit, key) with limit > 0 is allowed.
C7_AllowedAgainAfterInterval ==
    /\ hist.retried # "denied"
    /\ (hist.denied /\ now - hist.at > options.interval) =>
          \A limit \in 1..MaxLimit : Verdict(limit, Watched).success

\* a key that was denied has been allowed again, more than interval later
C7_Witness == hist.retried = "allowed"

\* C9: the store never holds more than maxKeys distinct keys; an allowed check
\* of a key that is not in a store holding maxKeys keys removes exactly one
\* key, the one that went longest without a get or set.
C9_BoundedAndEvictsLRU ==
    /\ Cardinality(KeysOf(tokenCache.list)) = Len(tokenCache.list)
    /\ Len(tokenCache.list) <= options.uniqueTokenPerInterval
    /\ touched.evicted # NoKey => touched.evicted = touched.oldest
    /\ \A limit \in Limits, token \in Keys :
          LET r == Verdict(limit, token)
              oldest == LeastRecentlyTouched(touched.order, tokenCache.list)
          IN  (r.success /\ ~HasKey(tokenCache.list, token)
               /\ Len(tokenCache.list) = options.uniqueTokenPerInterval)
                  => KeysOf(r.cache.list) = (KeysOf(tokenCache.list) \ {oldest}) \cup {token}

\* an insertion into the full store has evicted a key
C9_Witness ==
    /\ touched.evicted # NoKey
    /\ Len(tokenCache.list) = options.uniqueTokenPerInterval
    /\ ~HasKey(tokenCache.list, touched.evicted)
    /\ Len(touched.order) = Cardinality(Keys)

\* C10: the verdicts a key gets are those it would get if every call of
\* another key were removed from the sequence of calls.
C10_KeysNeverInterfere == shadow.fed => shadow.same

\* C10 as amended: they are, as long as the store has not evicted a key.
C10_NoInterferenceWithoutEviction ==
    /\ (shadow.fed /\ shadow.clean) => shadow.same
    /\ shadow.evicted = NoKey =>
          \A limit \in Limits, token \in Keys \ {shadow.hidden} :
              LET r == Verdict(limit, token)
                  r2 == CheckBody(shadow.cache, options, limit, token, now)
              IN  r.success = r2.success /\ r.remaining = r2.remaining

\* the hidden key has used up its quota, and another key got the same verdict
\* from both limiters
C10_Witness ==
    /\ shadow.fed /\ shadow.clean /\ shadow.same /\ shadow.evicted = NoKey
    /\ EntryAt(tokenCache, shadow.hidden, now).live
    /\ ~Verdict(MaxLimit, shadow.hidden).success
    /\ Len(shadow.cache.list) > 0

\* C8: limit 3, interval 1000 ms, a fresh key: the checks at t = 0, 100, 200
\* are allowed with remaining 2, 1, 0; the check at t = 300 is denied with
\* remaining 0; the check at t = 1050 is allowed.
ScenarioTimes == <<0, 100, 200, 300, 1050>>

ScenarioAllowed == <<TRUE, TRUE, TRUE, FALSE, TRUE>>

ScenarioRemaining == <<2, 1, 0, 0>>

FollowsScenario(i) == \A j \in 1..i : log[j].at = ScenarioTimes[j]

C8_Scenario ==
    \A i \in 1..Len(log) :
        FollowsScenario(i) =>
            /\ log[i].success = ScenarioAllowed[i]
            /\ i <= 4 => log[i].remaining = ScenarioRemaining[i]

\* How the code behaves: at t = 0 the sentinel 0 is inside the window, so the
\* first check returns remaining 1, the second 0, and the third is denied.
C8_AsCoded ==
    \A i \in 1..Len(log) :
        FollowsScenario(i) =>
            /\ log[i].success = <<TRUE, TRUE, FALSE, FALSE, TRUE>>[i]
            /\ log[i].remaining = <<1, 0, 0, 0, 1>>[i]

\* what check(limit, token) returns and stores at the current clock for a key
\* the limiter has never seen: the verdict, and the key's entry afterwards
NeverSeen(limit, token) ==
    LET r == CheckBody(RateLimit(options), options, limit, token, now)
    IN  [success |-> r.success, remaining |-> r.remaining,
         entry |-> EntryAt(r.cache, token, now)]

\* the same of the limiter as it is now
Outcome(limit, token) ==
    LET r == Verdict(limit, token)
    IN  [success |-> r.success, remaining |-> r.remaining,
         entry |-> EntryAt(r.cache, token, now)]

\* C11: a key whose latest check ran more than ttl (= interval) ago gets from
\* its next check(limit, key) the verdict a never-seen key gets at the same
\* clock with the same limit, and the same stored entry: for a limit > 0 the
\* call is allowed with remaining limit - 1 and the entry is [now].
C11_IdleKeyIsNeverSeen ==
    (last.called /\ now - before.at > options.interval) =>
        \A limit \in Limits :
            /\ Outcome(limit, Watched) = NeverSeen(limit, Watched)
            /\ limit > 0 =>
                  Outcome(limit, Watched) =
                      [success |-> TRUE, remaining |-> limit - 1,
                       entry |-> [present |-> TRUE, live |-> TRUE,
                                  value |-> <<now>>, start |-> now]]

\* the key used up its quota, its entry is still in the list, expired, and
\* more than ttl has passed since its latest check
C11_Witness ==
    /\ last.called
    /\ now - before.at > CacheTtl(options)
    /\ EntryAt(tokenCache, Watched, now).present
    /\ ~EntryAt(tokenCache, Watched, now).live
    /\ Len(EntryAt(tokenCache, Watched, now).value) = MaxLimit

\* C12: check(limit, key) with limit <= 0 is denied with remaining 0 for
\* every key in every state of the store, and every key has the entry it had
\* (the same timestamps and ttl start, for every reader of the store).
C12_NonPositiveLimitDenied ==
    /\ \A limit \in NonPositive, token \in Keys :
          LET r == Verdict(limit, token)
          IN  /\ ~r.success /\ r.remaining = 0
              /\ \A k \in Keys : LiveEntry(r.cache, k, now) = LiveEntry(tokenCache, k, now)
    /\ last.called =>
          /\ ~last.success /\ last.remaining = 0
          /\ EntryAt(tokenCache, last.key, before.at).live = before.entry.live
          /\ before.entry.live => EntryAt(tokenCache, last.key, before.at) = before.entry

\* a check with a negative limit ran for a key that holds a live entry and
\* has quota left under a positive limit
C12_Witness ==
    /\ last.called /\ last.limit < 0
    /\ before.entry.live /\ before.entry.value # <<>>
    /\ Verdict(MaxLimit, last.key).success

\* the verdicts check can resolve to
Verdicts == [success : BOOLEAN, remaining : 0..MaxLimit]

NonEmpty(v) == v # Null /\ v # Str("")

\* C14: the identifier is "user:" + userId when userId is present and
\* non-empty, whatever the headers; otherwise "ip:" + the forwarded-address
\* header when that is present and non-empty, else "ip:" + the real-address
\* header when that is present and non-empty, else "ip:unknown".
C14_Identifier ==
    res # NoResponse =>
        res.identifier =
            CASE NonEmpty(req.userId) -> "user:" \o req.userId.str
              [] ~NonEmpty(req.userId) /\ NonEmpty(req.forwarded) -> "ip:" \o req.forwarded.str
              [] ~NonEmpty(req.userId) /\ ~NonEmpty(req.forwarded) /\ NonEmpty(req.real)
                    -> "ip:" \o req.real.str
              [] OTHER -> "ip:unknown"

\* a request without a user whose forwarded-address header is empty was
\* identified by its real-address header
C14_Witness ==
    /\ req.userId = Null /\ req.forwarded = Str("") /\ req.real = Str("10.0.0.2")
    /\ res.identifier = "ip:10.0.0.2"

\* the requests of WatchedUser that passed the limiter in the window that
\* ends now, and those among them made since its entry was last evicted
PassedInWindow == Len(InWindow(log, now))

PassedSinceEviction == Len(SelectSeq(InWindow(log, now), LAMBDA p : p.clean))

\* C15: across the five rate-limited handlers together and under any
\* interleaving of requests of any users, no more than 20 (ApiLimit) requests
\* of one user pass apiLimiter within any window of one interval.
C15_TwentyPerMinutePerUser == PassedInWindow <= ApiLimit

\* C15 as amended: no more than ApiLimit pass within a window during which the
\* store does not evict the user's entry; and no request without a user, and
\* no POST or PUT without a JSON content type, reaches the limiter.
C15_TwentyPerMinuteWhileTracked ==
    /\ PassedSinceEviction <= ApiLimit
    /\ \A handler \in Handlers, r \in ApiRequests :
          LET h == HandlerBody(tokenCache, options, handler, r, now)
          IN  /\ h.checked => h.identifier = "user:" \o r.userId.str
              /\ h.status \in {401, 415} => h.cache = tokenCache
              /\ (Truthy(r.userId) /\ r.userId.str = WatchedUser
                  /\ PassedSinceEviction = ApiLimit
                  /\ HasKey(tokenCache.list, "user:" \o WatchedUser)) => h.status # 0

\* the user has passed ApiLimit requests in the window, its entry was never
\* evicted, and its next request is answered 429 by every handler
C15_Witness ==
    /\ PassedSinceEviction = ApiLimit /\ PassedInWindow = ApiLimit
    /\ \A handler \in Handlers :
          HandlerBody(tokenCache, options, handler,
                      [userId |-> Str(WatchedUser), forwarded |-> Str("10.0.0.1"),
                       real |-> Null,
                       contentType |-> Str("Application/JSON; charset=utf-8")],
                      now).status = 429

\* the invocations that have read the store and not yet returned
Between == {i \in 1..Len(pending) : pending[i].pc \in {"got", "allowed"}}

\* C16: from its tokenCache.get to its return, after tokenCache.set, an
\* invocation of check is alone with the store: no other invocation is between
\* its get and its return at the same time, and the store is as its get left
\* it, so no two invocations for a key read the same state before either appends.
C16_GetToSetIsAtomic ==
    /\ Cardinality(Between) <= 1
    /\ \A i \in Between : tokenCache = pending[i].seen
    /\ \A i \in 1..Len(pending) : pending[i].pc = "start" => OthersIdle(i)

\* an invocation is between its get and its set, having read the timestamp
\* that another invocation for the key appended at the same clock
C16_Witness ==
    \E i \in 1..Len(pending) :
        /\ pending[i].pc = "allowed"
        /\ pending[i].tokenCount # <<>>
        /\ pending[i].tokenCount[Len(pending[i].tokenCount)] = pending[i].at

\* the allowed invocations for Watched in the window that ends now, and those
\* among them made since the key's entry was last evicted
AllowedInWindow == Len(InWindow(log, now))

AllowedSinceEviction == Len(SelectSeq(InWindow(log, now), LAMBDA p : p.clean))

\* C17: for a key, a fixed limit > 0 and any calls on any keys, evictions and
\* expiries included, at most limit allowed check(limit, key) calls fall in
\* any window of length interval.
C17_AtMostLimitPerWindow == AllowedInWindow <= hist.limit

\* C17 as amended: at most limit of them fall in a window during which the
\* store does not evict the key's entry (expiry of the entry included).
C17_AtMostLimitWhileTracked ==
    /\ AllowedSinceEviction <= hist.limit
    /\ (AllowedSinceEviction = hist.limit /\ HasKey(tokenCache.list, Watched))
          => ~Verdict(hist.limit, Watched).success

\* the window holds limit allowed calls made at different clocks, the first of
\* them made after the key's entry had expired, and the next call is denied
C17_Witness ==
    /\ hist.limit = MaxLimit
    /\ AllowedSinceEviction = hist.limit
    /\ log[1].at > options.interval /\ log[1].at < now
    /\ ~Verdict(hist.limit, Watched).success

\* the timestamps of an entry of the list, as a set
TimestampsOf(e) == {e.value[i] : i \in 1..Len(e.value)}

\* C18: every entry in the store holds only timestamps t with w - t < interval,
\* w being the time the entry was last written; the entry an allowed check has
\* just written for Watched was written at the time of that check and ends
\* with it.
C18_StoredEntriesArePruned ==
    /\ \A i \in 1..Len(tokenCache.list) :
          \A t \in TimestampsOf(tokenCache.list[i]) :
              tokenCache.list[i].start - t < options.interval
    /\ last.called =>
          LET stored == EntryAt(tokenCache, Watched, before.at)
          IN  /\ stored.present /\ stored.start = before.at
              /\ stored.value[Len(stored.value)] = before.at

\* an allowed check has just rewritten an entry that held a timestamp no longer
\* in the window together with one still in it
C18_Witness ==
    /\ last.called /\ before.at = now
    /\ before.entry.live
    /\ \E t \in TimestampsOf(before.entry) : before.at - t >= options.interval
    /\ \E t \in TimestampsOf(before.entry) : before.at - t < options.interval
    /\ Len(EntryAt(tokenCache, Watched, now).value) = 2

\* C19: for every limit, key and time, check on a key without a live entry
\* returns the verdict, and stores the entry, that it would if the absent entry
\* were counted as the empty sequence instead of [0]: the sentinel 0 is neither
\* counted as a call nor written into the store.
C19_SentinelIsUnobservable ==
    \A limit \in Limits, token \in Keys :
        ~LiveEntry(tokenCache, token, now).live =>
            LET got == Outcome(limit, token)
                empty == IF OverLimit(<<>>, limit)
                         THEN [success |-> FALSE, remaining |-> 0, value |-> <<>>]
                         ELSE [success |-> TRUE, remaining |-> Remaining(limit, <<now>>),
                               value |-> <<now>>]
            IN  /\ got.success = empty.success
                /\ got.remaining = empty.remaining
                /\ got.success => got.entry.value = empty.value

\* How the code behaves instead: the two treatments agree once the clock has
\* reached interval; before that the sentinel is counted and stored.
C19_AsCoded ==
    \A limit \in Limits, token \in Keys :
        ~LiveEntry(tokenCache, token, now).live =>
            LET got == Outcome(limit, token)
                empty == IF OverLimit(<<>>, limit)
                         THEN [success |-> FALSE, remaining |-> 0, value |-> <<>>]
                         ELSE [success |-> TRUE, remaining |-> Remaining(limit, <<now>>),
                               value |-> <<now>>]
            IN  IF now >= options.interval
                THEN /\ got.success = empty.success
                     /\ got.remaining = empty.remaining
                     /\ got.success => got.entry.value = empty.value
                ELSE /\ got.success = (limit > 1)
                     /\ got.success => /\ got.remaining = empty.remaining - 1
                                       /\ got.entry.value = <<0, now>>

\* C20: the timestamps of a key are shared by its call sites whatever their
\* limit: after m allowed calls within the window, check(L2, key) is denied
\* for every L2 <= m and allowed for every L2 > m.
C20_LimitsShareTheWindow ==
    AllowedInWindow >= 1 =>
        \A L2 \in Limits : Verdict(L2, Watched).success <=> L2 > AllowedInWindow

\* How the code behaves instead: the calls counted are those made since the
\* key's entry was last evicted, and one more while the clock is below interval
\* (the sentinel 0).
C20_AsCoded ==
    \A L2 \in Limits :
        Verdict(L2, Watched).success <=>
            L2 > AllowedSinceEviction + (IF now < options.interval THEN 1 ELSE 0)

\* C21: the first allowed check for a key without a live entry (absent,
\* evicted or expired) stores the singleton [now]; an allowed check for a key
\* with a live entry stores the pruned entry and one timestamp more; and a
\* check never removes the live entry of the key it is called for.
C21_EntryLifecycle ==
    last.called =>
        LET stored == EntryAt(tokenCache, last.key, before.at)
            kept == Filter(before.entry.value, before.at, options.interval)
        IN  /\ (last.success /\ ~before.entry.live) =>
                  stored.present /\ stored.value = <<before.at>>
            /\ (last.success /\ before.entry.live) =>
                  stored.present /\ Len(stored.value) = Len(kept) + 1
            /\ before.entry.live => stored.present

\* How the code behaves instead: while the clock is below interval the entry
\* of a new key is created as [0, now], the sentinel 0 before the call's own
\* timestamp.
C21_AsCoded ==
    last.called =>
        LET stored == EntryAt(tokenCache, last.key, before.at)
            kept == Filter(before.entry.value, before.at, options.interval)
        IN  /\ (last.success /\ ~before.entry.live) =>
                  /\ stored.present
                  /\ stored.value = IF before.at < options.interval
                                    THEN <<0, before.at>> ELSE <<before.at>>
            /\ (last.success /\ before.entry.live) =>
                  stored.present /\ stored.value = Append(kept, before.at)
            /\ before.entry.live => stored.present

\* the key of the most recently used entry of the list
MostRecentlyUsed(list) == IF list = <<>> THEN NoKey ELSE list[Len(list)].key

\* C22: a check on a key that has a live entry, a denied one included, makes
\* the key the most recently used of the store; a key that the store evicts
\* is the one that went longest without a check among those it held.
C22_CheckRefreshesRecency ==
    /\ last.called => MostRecentlyUsed(tokenCache.list) = last.key
    /\ touched.evicted # NoKey =>
          /\ touched.evicted = touched.oldest
          /\ touched.evicted # MostRecentlyUsed(tokenCache.list)
          /\ Len(touched.order) >= 2 => touched.evicted # touched.order[Len(touched.order) - 1]

\* a denied check has moved its key, which was not the most recently used,
\* to the most recently used end of a store that holds another key
C22_Witness ==
    /\ last.called /\ ~last.success
    /\ Len(touched.order) >= 2
    /\ HasKey(tokenCache.list, touched.order[Len(touched.order) - 1])
    /\ MostRecentlyUsed(tokenCache.list) = last.key

\* C23: an entry last set more than ttl ago is not returned by get, and check
\* treats its key as a never-seen one; an allowed check restarts the ttl of the
\* entry, a denied check (its get included) leaves the time of the last set as
\* it was.
C23_OnlySetRestartsTtl ==
    /\ LET e == EntryAt(tokenCache, Watched, now)
       IN  (e.present /\ now - e.start > tokenCache.ttl) =>
               /\ ~LRUGet(tokenCache, Watched, now).hit
               /\ \A limit \in Limits : Outcome(limit, Watched) = NeverSeen(limit, Watched)
    /\ last.called =>
          LET stored == EntryAt(tokenCache, Watched, before.at)
          IN  /\ last.success => stored.present /\ stored.start = before.at
              /\ (~last.success /\ before.entry.live) =>
                    stored.present /\ stored.start = before.entry.start

\* a denied check ran on a live entry after its last set, and the entry has
\* expired although that check ran no more than ttl ago
C23_Witness ==
    /\ last.called /\ ~last.success /\ before.entry.live
    /\ before.at > before.entry.start
    /\ now - before.at <= tokenCache.ttl
    /\ now - EntryAt(tokenCache, Watched, now).start > tokenCache.ttl
    /\ ~LRUGet(tokenCache, Watched, now).hit

\* the address header that key derivation finds first, Null when it finds none
FirstFound(r) == IF Truthy(Or(r.forwarded, r.real)) THEN Or(r.forwarded, r.real) ELSE Null

\* C24: two requests get the same key only if they carry the same user
\* identifier or, both carrying none, the same first-found address value (or
\* both no address at all); a request without user identifier and address
\* gets "ip:unknown".
C24_KeysNeverAlias ==
    \A i, j \in 1..Len(log) :
        LET a == log[i].req
            b == log[j].req
        IN  /\ log[i].identifier = log[j].identifier =>
                  IF Truthy(a.userId) \/ Truthy(b.userId)
                  THEN Truthy(a.userId) /\ Truthy(b.userId) /\ a.userId.str = b.userId.str
                  ELSE FirstFound(a) = FirstFound(b)
            /\ (~Truthy(a.userId) /\ FirstFound(a) = Null) => log[i].identifier = "ip:unknown"

\* How the code behaves instead: the fallback is the address value "unknown",
\* so a request whose first-found header reads "unknown" shares the key of the
\* requests without any address.
C24_AsCoded ==
    \A i, j \in 1..Len(log) :
        LET a == log[i].req
            b == log[j].req
        IN  /\ log[i].identifier = log[j].identifier =>
                  IF Truthy(a.userId) \/ Truthy(b.userId)
                  THEN Truthy(a.userId) /\ Truthy(b.userId) /\ a.userId.str = b.userId.str
                  ELSE Or(FirstFound(a), Str("unknown")) = Or(FirstFound(b), Str("unknown"))
            /\ (~Truthy(a.userId) /\ FirstFound(a) = Null) => log[i].identifier = "ip:unknown"

\* the latest request was answered by a handler
Served == res # NoResponse

\* C25: in every rate-limited handler, a request that the limiter denies is
\* answered with the ApiError 429 and makes no database read or write; a
\* successful response to a request that the limiter allows carries the
\* verdict's remaining in X-RateLimit-Remaining.
C25_DeniedIs429WithoutDatabase ==
    Served =>
        /\ (res.checked /\ ~res.success) =>
              /\ res.response.status = 429
              /\ res.response.reads = 0 /\ res.response.writes = 0
        /\ (res.checked /\ res.success /\ res.response.status \in {200, 201}) =>
              res.response.header = res.remaining
        /\ res.response.status = 429 => res.checked /\ ~res.success
        /\ res.response.status \in {200, 201} => res.checked /\ res.success

\* a handler that would have written to the database answered 429 instead,
\* to a request that passed authentication and the Content-Type validation
C25_Witness ==
    /\ Served /\ res.handler = "PUT"
    /\ res.checked /\ ~res.success
    /\ res.response.status = 429
    /\ res.identifier = "user:" \o WatchedUser

\* C26: a request answered 401 (no user) or 415 (POST or PUT without a JSON
\* Content-Type) has not consulted the limiter: the store is as it was and no
\* quota is used. A request that passes both consults the limiter and, when
\* allowed, uses one unit of quota, also when it is then answered 400 or 404.
C26_RejectedEarlyUsesNoQuota ==
    Served =>
        /\ res.response.status = 401 <=> ~Truthy(req.userId)
        /\ res.response.status = 415 => NeedsJson(res.handler)
        /\ res.response.status \in {401, 415} =>
              ~res.checked /\ res.untouched /\ res.gained = 0
        /\ res.response.status \notin {401, 415} => res.checked
        /\ res.checked => res.gained = (IF res.success THEN 1 ELSE 0)
        /\ res.response.status \in {400, 404} => res.success /\ res.gained = 1

\* a request answered 404 has used the last unit of the quota of its user,
\* whose entry held timestamps already
C26_Witness ==
    /\ Served /\ res.response.status = 404
    /\ res.checked /\ res.success /\ res.gained = 1
    /\ res.remaining = 0
    /\ now >= options.interval

\* C27: every call gets from the limiter the verdict it gets from the same
\* limiter over a store of the same size that never expires an entry.
C27_ExpiryNeverChangesVerdict == shadow.same

\* C27 as amended: the verdicts are the same as long as no denied call has
\* been made for a key whose entry had expired.
C27_ExpiryKeepsVerdictsUnlessDenied == shadow.clean => shadow.same

\* calls were made for keys whose entries had expired, all of them allowed,
\* and an expired entry that the other store still holds is in the window no more
C27_Witness ==
    /\ shadow.fed /\ shadow.clean /\ shadow.same
    /\ \E k \in Keys : /\ HasKey(tokenCache.list, k) /\ ~EntryAt(tokenCache, k, now).live
                       /\ HasKey(shadow.cache.list, k)

\* C28: a key that was denied with its stored timestamps in the window at
\* the limit is allowed by the first check made once fewer than limit of its
\* stored timestamps are inside the window, which is the case from interval
\* after its last allowed call on, however many denied checks were made.
C28_DeniedCallsDoNotProlong ==
    last.called =>
        /\ StoredInWindow(tokenCache, Watched, now) < last.limit
              => Verdict(last.limit, Watched).success
        /\ now - before.at >= options.interval
              => /\ StoredInWindow(tokenCache, Watched, now) < last.limit
                 /\ Verdict(last.limit, Watched).success

\* How the code behaves instead: the blocked key is allowed as claimed unless
\* the store has evicted its entry and the clock is below interval, when the
\* sentinel 0 is counted.
C28_AsCoded ==
    (last.called /\ (HasKey(tokenCache.list, Watched) \/ now >= options.interval)) =>
        /\ StoredInWindow(tokenCache, Watched, now) < last.limit
              => Verdict(last.limit, Watched).success
        /\ now - before.at >= options.interval
              => /\ StoredInWindow(tokenCache, Watched, now) < last.limit
                 /\ Verdict(last.limit, Watched).success

\* C29: every entry of the store is a non-empty sequence of timestamps in
\* non-decreasing order that ends with the time it was set, the time of the
\* latest allowed check for its key, and it is no longer than the largest
\* limit an allowed check for the key was given.
C29_EntriesAreSortedAndBounded ==
    /\ \A i \in 1..Len(tokenCache.list) :
          LET e == tokenCache.list[i]
          IN  /\ e.value # <<>>
              /\ \A j \in 1..(Len(e.value) - 1) : e.value[j] <= e.value[j + 1]
              /\ e.value[Len(e.value)] = e.start
              /\ e.start <= now
              /\ Len(e.value) <= MaxLimit
    /\ HasKey(tokenCache.list, Watched) =>
          LET e == EntryOf(tokenCache.list, Watched)
          IN  /\ e.value[Len(e.value)] = before.at
              /\ Len(e.value) <= hist.limit

\* the entry of Watched, rewritten after its oldest timestamps were pruned,
\* is as long as the largest limit it was allowed with, at different clocks
C29_Witness ==
    /\ HasKey(tokenCache.list, Watched)
    /\ LET e == EntryOf(tokenCache.list, Watched)
       IN  /\ Len(e.value) = hist.limit /\ hist.limit = MaxLimit
           /\ e.value[1] >= options.interval
           /\ e.value[1] < e.value[Len(e.value)]
           /\ e.value[Len(e.value)] = before.at

\* the keys other than token that the store holds and the cache c does not
RemovedBy(c, token) == {k \in KeysOf(tokenCache.list) \ {token} : ~HasKey(c.list, k)}

\* C30: check(limit, key) leaves every other key either with the entry it had
\* or, one of them at most and only when key is inserted as a new key into a
\* store that is full, without an entry.
C30_OtherKeysUntouched ==
    /\ \A limit \in Limits, token \in Keys :
          \A r \in {Verdict(limit, token)} :
              \A gone \in {RemovedBy(r.cache, token)} :
                  /\ \A k \in KeysOf(tokenCache.list) \ ({token} \cup gone) :
                        EntryOf(r.cache.list, k) = EntryOf(tokenCache.list, k)
                  /\ Cardinality(gone) <= 1
                  /\ gone # {} =>
                        /\ r.success
                        /\ ~HasKey(tokenCache.list, token)
                        /\ Len(tokenCache.list) = options.uniqueTokenPerInterval
    /\ touched.evicted # NoKey =>
          /\ MostRecentlyUsed(tokenCache.list) # touched.evicted
          /\ Len(tokenCache.list) = options.uniqueTokenPerInterval

\* an insertion into the full store has removed one key and left the other
\* key with the two timestamps it had, set before the insertion
C30_Witness ==
    /\ touched.evicted # NoKey
    /\ ~HasKey(tokenCache.list, touched.evicted)
    /\ Len(tokenCache.list) >= 2
    /\ Len(tokenCache.list[1].value) = 2
    /\ tokenCache.list[1].start < tokenCache.list[Len(tokenCache.list)].start

====
